---- MODULE Spec2Model ----
(***************************************************************************)
(* The sandbox pool of ai_code_sandbox (pool.py): admission against the    *)
(* pool ceilings, the image cache with its compatibility scan, image       *)
(* builds, and release/close of the sandboxes handed out.                  *)
(*                                                                         *)
(* Quantities.  Memory is counted in megabytes, as get_sandbox does        *)
(* (float(mem_limit.strip("m")) against float(max_memory.strip("g")) *     *)
(* 1024).  CPU shares are Python floats in the code; here they are exact   *)
(* fixed-point numbers with CpuResolution units per CPU, so that the       *)
(* truncation of int(cpu_quota * 100000) is computed, not assumed away.    *)
(*                                                                         *)
(* Names.  pool.py uses SandboxError and AICodeSandbox without importing   *)
(* them; the model takes both names as bound: SandboxError to the class of *)
(* error.py, AICodeSandbox to a sandbox class that accepts image=,         *)
(* mem_limit= and cpu_quota= and keeps the last two as attributes, which   *)
(* is what lines 75-79 and 86-87 of pool.py require of it.                 *)
(***************************************************************************)
EXTENDS Integers, Sequences, FiniteSets, TLC

VARIABLES
    alloc_memory,       \* pool.alloc_memory, megabytes
    alloc_cpu,          \* pool.alloc_cpu, fixed-point CPUs
    image_cache,        \* pool.image_cache: insertion-ordered <<[key, image]>>
    constraints_cache,  \* pool.constraints_cache: image id -> (name -> specifier)
    images,             \* the runtime's built images: images[id] is the Dockerfile
    sandboxes,          \* the sandboxes handed out by get_sandbox, in order
    last,               \* what the last sequential pool call did
    thread,             \* per caller thread: position and locals of its call
    max_memory,         \* pool.max_memory, "<n>g"
    max_cpu,            \* pool.max_cpu, fixed-point CPUs
    self,               \* one BaseCodegenSandbox object: its attributes
    client,             \* the container runtime behind self.client
    done,               \* what the last call on the codegen sandbox did
    host                \* the memory and the CPUs psutil reports to config.py

vars == <<alloc_memory, alloc_cpu, image_cache, constraints_cache, images,
          sandboxes, last, thread, max_memory, max_cpu, self, client, done,
          host>>

codegen_vars == <<self, client, done>>

pool_vars == <<alloc_memory, alloc_cpu, image_cache, constraints_cache>>

ceilings == <<max_memory, max_cpu>>

---------------------------------------------------------------------------
(* Bounds of the model *)

MaxSandboxes == 2
MaxImages == 2
MaxReleases == 2
ThreadCalls == 1
MaxCloses == 2

---------------------------------------------------------------------------
(* Program constants *)

\* cpu_quota=int(cpu_quota * 100000), sandbox.cpu_quota / 100000.0
CpuPeriod == 100000

\* float(self.max_memory.strip("g")) * 1024
MegabytesPerGigabyte == 1024

\* Fixed-point resolution of a CPU share: one decimal digit finer than the
\* runtime's quota unit, enough for fractions that int() truncates.
CpuResolution == 10 * CpuPeriod

\* CodegenSandboxPool.__init__ defaults: max_memory="1g", max_cpu=1.0
DefaultMaxMemory == [value |-> 1, unit |-> "g"]
DefaultMaxCpu == CpuResolution

None == [none |-> TRUE]

---------------------------------------------------------------------------
(* Requests *)

\* Requirement strings the callers use, in the order sorted() gives them.
RequirementStrings == <<"numpy>=1.20", "pandas">>

\* packaging.requirements.Requirement(req).name
RequirementName(req) ==
    CASE req = "numpy>=1.20" -> "numpy"
      [] req = "pandas" -> "pandas"

\* packaging.requirements.Requirement(req).specifier
RequirementSpecifier(req) ==
    CASE req = "numpy>=1.20" -> ">=1.20"
      [] req = "pandas" -> ""

BaseImages == {"python:3.9-slim"}

PackageLists ==
    { <<"numpy>=1.20">>, <<"numpy>=1.20", "pandas">>, <<"pandas", "numpy>=1.20">> }

\* mem_limit strings "<n>m"
MemLimits == { [value |-> 512, unit |-> "m"] }

\* cpu_quota floats: a third of a CPU, and 7/6 of a CPU, more than the pool has
CpuQuotas == { CpuResolution \div 3, (7 * CpuResolution) \div 6 }

---------------------------------------------------------------------------
(* Values of the runtime and of Python *)

\* docker Image.id, a string; a tagged value so that it differs from the
\* Image object that carries it, as in Python
ImageId(n) == [sha |-> n]

\* docker.models.images.Image: equal to another Image with the same id, never
\* to a string (docker Model.__eq__, Model.__hash__)
Image(n) == [id |-> ImageId(n)]

\* The text of the Dockerfile: "FROM {base_image}\nRUN pip install ..."
Dockerfile(base_image, packages) == [base |-> base_image, packages |-> packages]

\* float(s.strip(suffix)) raises ValueError unless s is "<number><suffix>"
Parses(s, suffix) == s.unit = suffix

StripFloat(s, suffix) == s.value

\* int(cpu_quota * 100000), the quota handed to the runtime: truncates
ToCpuQuota(cpu_quota) == cpu_quota \div (CpuResolution \div CpuPeriod)

\* sandbox.cpu_quota / 100000.0
FromCpuQuota(quota) == quota * (CpuResolution \div CpuPeriod)

---------------------------------------------------------------------------
(* _hash_requirements *)

Rank(req) == CHOOSE i \in 1..Len(RequirementStrings) : RequirementStrings[i] = req

RECURSIVE Insert(_, _)
Insert(req, s) ==
    IF s = <<>> THEN <<req>>
    ELSE IF Rank(req) <= Rank(Head(s)) THEN <<req>> \o s
    ELSE <<Head(s)>> \o Insert(req, Tail(s))

\* sorted(packages or [])
RECURSIVE Sorted(_)
Sorted(s) == IF s = <<>> THEN <<>> ELSE Insert(Head(s), Sorted(Tail(s)))

\* the digest of the packages in the order given
HashRequirementsUnsorted(base_image, packages) == <<base_image, packages>>

\* sha256 of f"{base_image}:" + ",".join(sorted(packages or [])): the digest is
\* taken as injective on the joined text
HashRequirements(base_image, packages) == <<base_image, Sorted(packages)>>

---------------------------------------------------------------------------
(* The two dictionaries of the pool *)

CacheKeys(cache) == { cache[i].key : i \in 1..Len(cache) }

\* self.image_cache[requirements_hash]
CacheGet(cache, key) ==
    cache[CHOOSE i \in 1..Len(cache) : cache[i].key = key].image

\* the assignment left out
CachePutDropped(cache, key, image) == cache

\* self.image_cache[requirements_hash] = image: a new key goes last, an
\* existing key keeps its place
CachePut(cache, key, image) ==
    IF key \in CacheKeys(cache)
    THEN [i \in 1..Len(cache) |->
            IF cache[i].key = key THEN [key |-> key, image |-> image] ELSE cache[i]]
    ELSE Append(cache, [key |-> key, image |-> image])

\* a lookup that finds the constraints of an Image object under its id
ConstraintsGetById(constraints, image_id) ==
    IF image_id \in DOMAIN constraints THEN constraints[image_id]
    ELSE IF "id" \in DOMAIN image_id /\ image_id.id \in DOMAIN constraints
         THEN constraints[image_id.id]
         ELSE None

\* self.constraints_cache.get(image_id)
ConstraintsGet(constraints, image_id) ==
    IF image_id \in DOMAIN constraints THEN constraints[image_id] ELSE None

\* {req.name: req.specifier for req in map(Requirement, packages)}
ParsedConstraints(packages) ==
    LET names == { RequirementName(packages[i]) : i \in 1..Len(packages) }
        lastOf(name) == CHOOSE i \in 1..Len(packages) :
            /\ RequirementName(packages[i]) = name
            /\ \A j \in (i+1)..Len(packages) : RequirementName(packages[j]) # name
    IN  [name \in names |-> RequirementSpecifier(packages[lastOf(name)])]

---------------------------------------------------------------------------
(* _check_compatibility: "True", "False", or "TypeError" when it raises *)

\* the loop over packages, from position i
RECURSIVE CheckRequirements(_, _, _)
CheckRequirements(cached_constraints, packages, i) ==
    IF i > Len(packages) THEN "True"
    ELSE IF RequirementName(packages[i]) \notin DOMAIN cached_constraints THEN "False"
    \* SpecifierSet.contains(item) converts item with Version(item); item is a
    \* SpecifierSet here, and Version() of it raises
    ELSE "TypeError"

CheckCompatibility(constraints, image_id, packages) ==
    LET cached_constraints == ConstraintsGet(constraints, image_id) IN
    IF cached_constraints = None \/ DOMAIN cached_constraints = {} THEN "False"
    ELSE CheckRequirements(cached_constraints, packages, 1)

\* for image_id in self.image_cache.values(): ... break / else, from position i:
\* the values are the Image objects _create_image returned
RECURSIVE ScanCache(_, _, _, _)
ScanCache(cache, constraints, packages, i) ==
    IF i > Len(cache) THEN [kind |-> "miss", image |-> None]
    ELSE LET c == CheckCompatibility(constraints, cache[i].image, packages) IN
         IF c = "TypeError" THEN [kind |-> "TypeError", image |-> None]
         ELSE IF c = "True" THEN [kind |-> "compatible", image |-> cache[i].image]
         ELSE ScanCache(cache, constraints, packages, i + 1)

\* get_sandbox, lines 64-71: exact key first, then the compatibility scan
LookupImage(cache, constraints, key, packages) ==
    IF key \in CacheKeys(cache)
    THEN [kind |-> "exact", image |-> CacheGet(cache, key)]
    ELSE ScanCache(cache, constraints, packages, 1)

---------------------------------------------------------------------------
(* get_sandbox, the admission check (lines 57-60) *)

MemoryExceeded == "Requested memory exceeds pool's maximum allocable memory"
CpuExceeded == "Requested CPU exceeds pool's maximum allocable CPU"
Admitted == "admitted"

\* float(self.max_memory.strip("g")) * 1024
MaxMemoryMegabytes == StripFloat(max_memory, "g") * MegabytesPerGigabyte

\* the check with >= for >: a request that fits exactly is turned away
AdmissionErrorStrict(am, ac, mem_limit, cpu_quota) ==
    IF StripFloat(mem_limit, "m") + am >= MaxMemoryMegabytes THEN MemoryExceeded
    ELSE IF cpu_quota + ac >= max_cpu THEN CpuExceeded
    ELSE Admitted

\* the check with the two messages exchanged
AdmissionErrorSwapped(am, ac, mem_limit, cpu_quota) ==
    IF StripFloat(mem_limit, "m") + am > MaxMemoryMegabytes THEN CpuExceeded
    ELSE IF cpu_quota + ac > max_cpu THEN MemoryExceeded
    ELSE Admitted

\* the SandboxError the check raises against counters am, ac, or Admitted
AdmissionError(am, ac, mem_limit, cpu_quota) ==
    IF StripFloat(mem_limit, "m") + am > MaxMemoryMegabytes THEN MemoryExceeded
    ELSE IF cpu_quota + ac > max_cpu THEN CpuExceeded
    ELSE Admitted

---------------------------------------------------------------------------
(* _create_image and the sandbox constructor *)

\* what _create_image leaves behind when images.build succeeded: the new
\* image in the runtime and its declared constraints in constraints_cache
CreateImage(imgs, constraints, base_image, packages) ==
    LET image_id == ImageId(Len(imgs) + 1) IN
    [ image |-> Image(Len(imgs) + 1),
      images |-> Append(imgs, Dockerfile(base_image, packages)),
      constraints |-> (image_id :> ParsedConstraints(packages)) @@ constraints ]

\* AICodeSandbox(image=..., mem_limit=..., cpu_quota=...) once containers.run
\* returned: one running container under the requested limits
NewSandbox(image_id, mem_limit, quota) ==
    [ image |-> image_id, mem_limit |-> mem_limit, cpu_quota |-> quota,
      container |-> "running", releases |-> 0 ]

---------------------------------------------------------------------------
(* get_sandbox as one call: what it returns or raises and the state it leaves.
   build_ok and run_ok are the runtime's answers to images.build and
   containers.run, should the call get that far. *)

Raised(error, build, cache, constraints, imgs) ==
    [ outcome |-> error, build |-> build, run |-> "none",
      image_cache |-> cache, constraints_cache |-> constraints, images |-> imgs,
      alloc_memory |-> alloc_memory, alloc_cpu |-> alloc_cpu,
      sandboxes |-> sandboxes, image |-> None ]

\* lines 75-82: construct the sandbox on image, then count it
StartSandbox(image, build, cache, constraints, imgs, mem_limit, cpu_quota, run_ok) ==
    IF ~run_ok
    THEN [ Raised("RunError", build, cache, constraints, imgs) EXCEPT
             !.run = "failed", !.image = image.id ]
    ELSE [ outcome |-> "ok", build |-> build, run |-> "ok",
           image_cache |-> cache, constraints_cache |-> constraints, images |-> imgs,
           alloc_memory |-> alloc_memory + StripFloat(mem_limit, "m"),
           alloc_cpu |-> alloc_cpu + cpu_quota,
           sandboxes |-> Append(sandboxes,
                                NewSandbox(image.id, mem_limit, ToCpuQuota(cpu_quota))),
           image |-> image.id ]

get_sandbox(base_image, packages, mem_limit, cpu_quota, build_ok, run_ok) ==
    LET admission == IF Parses(mem_limit, "m")
                     THEN AdmissionError(alloc_memory, alloc_cpu, mem_limit, cpu_quota)
                     ELSE "ValueError"
        requirements_hash == HashRequirements(base_image, packages)
        found == LookupImage(image_cache, constraints_cache, requirements_hash, packages)
        created == CreateImage(images, constraints_cache, base_image, packages)
    IN  IF admission # Admitted
        THEN Raised(admission, "none", image_cache, constraints_cache, images)
        ELSE IF found.kind = "TypeError"
        THEN Raised("TypeError", "none", image_cache, constraints_cache, images)
        ELSE IF found.kind \in {"exact", "compatible"}
        THEN StartSandbox(found.image, "none", image_cache, constraints_cache, images,
                          mem_limit, cpu_quota, run_ok)
        ELSE IF ~build_ok
        THEN Raised("BuildError", "failed", image_cache, constraints_cache, images)
        ELSE StartSandbox(created.image, "ok",
                          CachePut(image_cache, requirements_hash, created.image),
                          created.constraints, created.images,
                          mem_limit, cpu_quota, run_ok)

---------------------------------------------------------------------------
(* sandbox.close() and release_sandbox *)

\* close(): the container is stopped and removed, errors are printed, and the
\* handle is cleared in the finally clause; a pool sandbox has no temp_image
Close(sandbox) == [sandbox EXCEPT !.container = "None"]

\* release_sandbox, lines 86-88
ReleasedMemory(sandbox) == StripFloat(sandbox.mem_limit, "m")
ReleasedCpu(sandbox) == FromCpuQuota(sandbox.cpu_quota)

---------------------------------------------------------------------------
(* BaseCodegenSandbox (codegen_sandbox/sandbox.py): values                 *)
(*                                                                         *)
(* One sandbox object is followed from construction to its collection.     *)
(* self holds the attributes that __init__ and close assign; an attribute  *)
(* that was never assigned is Unset, and reading it is an AttributeError.  *)
(* client is the state of the container runtime the object talks to.       *)

\* an attribute that no statement has assigned yet
Unset == [unset |-> TRUE]

\* the image references the runtime knows: names and ids
ImageName(name) == [name |-> name]

\* _init_image_config of the two language classes
CodingLanguages == {"python", "node"}

BaseImageName(coding_language) ==
    IF coding_language = "python" THEN ImageName("python:3.9-slim")
    ELSE ImageName("node:lts-slim")

\* the custom image a caller passes: here an image that the pool built and
\* holds in its cache, which is what get_sandbox passes to its sandboxes
CachedImageId == ImageId(1)

CustomImageNames == {None, CachedImageId}

\* requirements or []
RequirementLists == { <<>>, <<"numpy>=1.20">> }

\* config names asked for
ConfigNames == {"small", "8xlarge"}

\* the working directory of a container: the node Dockerfile sets WORKDIR
\* /sandbox, every other image runs in /
Workdir(coding_language, built) ==
    IF built /\ coding_language = "node" THEN "/sandbox" ELSE "/"

\* the object after __new__, before any statement of __init__ has run
NewObject ==
    [ init |-> "none", container |-> Unset, temp_image |-> Unset,
      requirements |-> <<>>, coding_language |-> "", closes |-> 0 ]

NoContainer == [state |-> "none"]

\* the runtime before the sandbox is constructed: the images that exist
\* already, one of them built earlier by the pool; no container, no files
NewClient ==
    [ images |-> { BaseImageName("python"), BaseImageName("node"),
                   CachedImageId },
      built |-> 1,
      container |-> NoContainer,
      files |-> {},
      dirs |-> {} ]

\* a call to the runtime and its arguments
Call(name, args) == [call |-> name, args |-> args]

\* the result of a call: the object and the runtime after it, what the
\* caller sees (outcome: "ok" or the exception), the value returned, and the
\* calls made to the runtime, in order
Result(obj, cl, outcome, value, calls) ==
    [ self |-> obj, client |-> cl, outcome |-> outcome, value |-> value,
      calls |-> calls ]

---------------------------------------------------------------------------
(* config.py: the table of tiers and the tiers the host offers *)

\* Memory is counted in hundredths of a megabyte, the unit in which 99% of
\* a host's megabytes and the limits of the table are both whole numbers;
\* the order of a limit and a ceiling is their order in bytes.
UnitsPerMegabyte == 100
MegabytesPerGiga == 1024
CpuQuotaPerCpu == 100000
Percent == 99

\* LUT, lines 36-40, for the units the table uses
LUT == [m |-> UnitsPerMegabyte, g |-> MegabytesPerGiga * UnitsPerMegabyte]

\* SandboxConfig(mem_limit, cpu_quota) under its name in the table; a
\* mem_limit "512m" is written [value |-> 512, unit |-> "m"]
SandboxConfig(naming, mem_limit, cpu_quota) ==
    [naming |-> naming, mem_limit |-> mem_limit, cpu_quota |-> cpu_quota]

\* readymade, lines 20-29, in the order of the table
readymade ==
    << SandboxConfig("tiny", [value |-> 128, unit |-> "m"], 25000),
       SandboxConfig("small", [value |-> 512, unit |-> "m"], 50000),
       SandboxConfig("medium", [value |-> 1, unit |-> "g"], 75000),
       SandboxConfig("large", [value |-> 2, unit |-> "g"], 100000),
       SandboxConfig("xlarge", [value |-> 4, unit |-> "g"], 150000),
       SandboxConfig("2xlarge", [value |-> 8, unit |-> "g"], 200000),
       SandboxConfig("4xlarge", [value |-> 16, unit |-> "g"], 300000),
       SandboxConfig("8xlarge", [value |-> 32, unit |-> "g"], 400000) >>

\* _mem_limit_to_int, lines 42-44: the value times the unit's entry of LUT
MemLimitToInt(mem_limit) == mem_limit.value * LUT[mem_limit.unit]

\* _max_mem_limit, line 10: int(total * 0.99), of a host with h.total
\* megabytes of memory
MaxMemLimit(h) == (h.total * UnitsPerMegabyte * Percent) \div 100

\* a ceiling of all of the host's CPUs
MaxCpuQuotaWhole(h) == h.cpu_count * CpuQuotaPerCpu

\* _max_cpu_quota, line 11: int(cpu_count * 100000 * 0.99)
MaxCpuQuota(h) == (h.cpu_count * CpuQuotaPerCpu * Percent) \div 100

\* a variant of the loop that does not look at the cpu ceiling
RECURSIVE FilteringLoopMemoryOnly(_, _, _)
FilteringLoopMemoryOnly(h, i, acc) ==
    IF i > Len(readymade) THEN acc
    ELSE IF MemLimitToInt(readymade[i].mem_limit) > MaxMemLimit(h) THEN acc
    ELSE FilteringLoopMemoryOnly(h, i + 1, Append(acc, readymade[i].naming))

\* the loop of filtering_available, lines 53-60: the tiers from position i
\* on, appended to acc until the first one over a ceiling breaks the loop
RECURSIVE FilteringLoop(_, _, _)
FilteringLoop(h, i, acc) ==
    IF i > Len(readymade) THEN acc
    ELSE IF MemLimitToInt(readymade[i].mem_limit) > MaxMemLimit(h) THEN acc
    ELSE IF readymade[i].cpu_quota > MaxCpuQuota(h) THEN acc
    ELSE FilteringLoop(h, i + 1, Append(acc, readymade[i].naming))

\* a variant that names the first name appended
MaxAvailableConfigFirst(names) ==
    IF names /= <<>> THEN names[1] ELSE "null"

\* lines 51 and 62-63: the last name appended, or "null"
MaxAvailableConfig(names) ==
    IF names /= <<>> THEN names[Len(names)] ELSE "null"

\* filtering_available, lines 47-65, on the host h
filtering_available(h) ==
    LET names == FilteringLoop(h, 1, <<>>)
    IN  [ available |-> {names[i] : i \in 1..Len(names)},
          max_available_config |-> MaxAvailableConfig(names) ]

\* psutil.virtual_memory().total, in megabytes, and psutil.cpu_count() of
\* the host the sandboxes of the other sections run on
DefaultHost == [total |-> 1024, cpu_count |-> 1]

\* the hosts looked at: memory of the usual sizes and of the sizes around
\* which a tier of the table comes under the ceiling, one to five CPUs
Totals ==
    { 128, 129, 130, 512, 517, 518, 1024, 1034, 1035, 2048, 2068, 2069,
      4096, 4137, 4138, 8192, 8274, 8275, 16384, 16549, 16550, 32768,
      33098, 33099, 65536 }

CpuCounts == 1..5

Hosts == [total : Totals, cpu_count : CpuCounts]

\* line 68: available, max_available_config = filtering_available()
available == filtering_available(host).available

max_available_config == filtering_available(host).max_available_config

\* SandboxConfigError.__init__, error.py lines 11-18
SandboxConfigErrorMessage(config) ==
    "specs configuration '" \o config
        \o "' not available on this system. "
        \o "The largest available configuration is: '"
        \o max_available_config \o "'"

---------------------------------------------------------------------------
(* __init__ and _setup_sandbox *)

\* _custom_image_dockerfile
CustomImageDockerfile(coding_language, image_name, requirements) ==
    [ base |-> image_name, packages |-> requirements,
      workdir |-> Workdir(coding_language, TRUE) ]

\* a variant that starts the container from the base image
RunImageBase(built, temp_image, base) == base

\* lines 96 and 102: the image the container is started from
RunImage(built, temp_image, base) == IF built THEN temp_image.id ELSE base

\* _setup_sandbox, lines 94-113: build_ok and run_ok are the runtime's answers
\* to images.build and containers.run
SetupSandbox(obj, cl, custom_image_name, build_ok, run_ok) ==
    LET base == IF custom_image_name /= None THEN custom_image_name
                ELSE BaseImageName(obj.coding_language)
        builds == obj.requirements /= <<>>
        built == builds /\ build_ok
        temp_image == Image(cl.built + 1)
        image_name == RunImage(built, temp_image, base)
        obj1 == IF built THEN [obj EXCEPT !.temp_image = temp_image] ELSE obj
        cl1 == IF built
               THEN [cl EXCEPT !.images = @ \cup {temp_image.id},
                               !.built = @ + 1]
               ELSE cl
        dockerfile == CustomImageDockerfile(obj.coding_language, base,
                                            obj.requirements)
        calls1 == IF builds THEN <<Call("images.build", dockerfile)>> ELSE <<>>
        run == Call("containers.run", image_name)
    IN  IF builds /\ ~build_ok
        THEN Result(obj, cl, "BuildError", None, calls1)
        ELSE IF ~run_ok
        THEN Result(obj1, cl1, "RunError", None,
                    Append(calls1, run))
        ELSE Result([obj1 EXCEPT !.container = [name |-> "sandbox"]],
                    [cl1 EXCEPT !.container =
                        [ state |-> "running", image |-> image_name,
                          workdir |-> Workdir(obj.coding_language, built) ]],
                    "ok", None, Append(calls1, run))

\* the answers of the runtime during construction: whether docker.from_env(),
\* images.build and containers.run succeed
InitAnswers == [env_ok : BOOLEAN, build_ok : BOOLEAN, run_ok : BOOLEAN]

\* __init__, lines 61-72
InitSandbox(obj, cl, coding_language, custom_image_name, requirements, config, a) ==
    IF config \notin available
    THEN Result([obj EXCEPT !.init = "raised"], cl, "SandboxConfigError",
                SandboxConfigErrorMessage(config), <<>>)
    ELSE
    LET obj1 == [obj EXCEPT !.coding_language = coding_language,
                            !.container = None, !.temp_image = None,
                            !.requirements = requirements]
    IN  IF ~a.env_ok
        THEN Result([obj1 EXCEPT !.init = "raised"], cl, "DockerException",
                    None, <<>>)
        ELSE LET r == SetupSandbox(obj1, cl, custom_image_name, a.build_ok,
                                   a.run_ok)
             IN  [r EXCEPT !.self.init =
                     IF r.outcome = "ok" THEN "returned" ELSE "raised"]

---------------------------------------------------------------------------
(* close, __del__, __exit__ *)

\* range(3), line 301
ImageRemovalAttempts == 3

\* a container part that clears the handle only when stop and remove
\* succeeded
CloseContainerKeepOnFailure(obj, cl, stop_ok, remove_ok) ==
    IF obj.container = None
    THEN Result(obj, cl, "ok", None, <<>>)
    ELSE IF ~stop_ok
    THEN Result(obj, cl, "ok", None, << Call("container.stop", obj.container) >>)
    ELSE Result([obj EXCEPT !.container = IF remove_ok THEN None ELSE @],
                [cl EXCEPT !.container.state =
                               IF remove_ok THEN "removed" ELSE "stopped",
                           !.files = IF remove_ok THEN {} ELSE @,
                           !.dirs = IF remove_ok THEN {} ELSE @],
                "ok", None,
                << Call("container.stop", obj.container),
                   Call("container.remove", obj.container) >>)

\* lines 288-295: the container part of close.  stop and remove sit in one
\* try block, so remove is reached only when stop did not raise.  A removed
\* container takes its files with it.
CloseContainer(obj, cl, stop_ok, remove_ok) ==
    IF obj.container = None
    THEN Result(obj, cl, "ok", None, <<>>)
    ELSE
    LET calls == IF stop_ok THEN << Call("container.stop", obj.container),
                                    Call("container.remove", obj.container) >>
                 ELSE << Call("container.stop", obj.container) >>
        removed == stop_ok /\ remove_ok
        state == IF ~stop_ok THEN cl.container.state
                 ELSE IF ~remove_ok THEN "stopped" ELSE "removed"
    IN  Result([obj EXCEPT !.container = None],
               [cl EXCEPT !.container.state = state,
                          !.files = IF removed THEN {} ELSE @,
                          !.dirs = IF removed THEN {} ELSE @],
               "ok", None, calls)

\* the calls of the loop of lines 301-307: one per attempt, stopping at the
\* first that succeeds; failures is how many attempts the runtime fails first
\* a loop without the break of line 304
RemovalCallsNoBreak(image_id, failures, attempt) ==
    [i \in 1..ImageRemovalAttempts |-> Call("images.remove", image_id)]

RECURSIVE RemovalCalls(_, _, _)
RemovalCalls(image_id, failures, attempt) ==
    IF attempt > ImageRemovalAttempts THEN <<>>
    ELSE IF attempt > failures THEN << Call("images.remove", image_id) >>
    ELSE << Call("images.remove", image_id) >>
         \o RemovalCalls(image_id, failures, attempt + 1)

\* a close that removes the image its container ran, whoever built it
CloseImageOfContainer(obj, cl, failures) ==
    IF cl.container.state = "none"
    THEN Result(obj, cl, "ok", None, <<>>)
    ELSE Result([obj EXCEPT !.temp_image = None],
                [cl EXCEPT !.images = @ \ {cl.container.image}],
                "ok", None, << Call("images.remove", cl.container.image) >>)

\* lines 299-313: the image part of close
CloseImage(obj, cl, failures) ==
    IF obj.temp_image = None
    THEN Result(obj, cl, "ok", None, <<>>)
    ELSE
    LET removed == failures < ImageRemovalAttempts
    IN  Result([obj EXCEPT !.temp_image = None],
               IF removed THEN [cl EXCEPT !.images = @ \ {obj.temp_image.id}]
               ELSE cl,
               "ok", None, RemovalCalls(obj.temp_image.id, failures, 1))

\* close, lines 282-313.  On an object whose __init__ raised before line 66
\* the attribute container does not exist and line 288 raises
close(obj, cl, stop_ok, remove_ok, failures) ==
    IF obj.container = Unset
    THEN Result(obj, cl, "AttributeError", None, <<>>)
    ELSE
    LET c == CloseContainer(obj, cl, stop_ok, remove_ok)
        i == CloseImage(c.self, c.client, failures)
    IN  Result([i.self EXCEPT !.closes = @ + 1], i.client, "ok", None,
               c.calls \o i.calls)

\* exc_type of a with-block whose body ended normally
NoException == "None"

\* an __exit__ that returns a true value
ExitValueTrue == TRUE

\* the value of __exit__: it returns nothing, i.e. None, which is false
ExitValue == FALSE

\* what the with statement does after __exit__ returned: the exception of
\* the body is raised again unless __exit__ returned a true value
Leave(exc_type, exit_value) ==
    IF exc_type = NoException \/ exit_value THEN "ok" ELSE exc_type

\* __exit__, lines 322-323, called by the with statement with the exception
\* of its body
Exit(obj, cl, exc_type, stop_ok, remove_ok, failures) ==
    LET r == close(obj, cl, stop_ok, remove_ok, failures)
    IN  [r EXCEPT !.outcome = IF r.outcome /= "ok" THEN r.outcome
                              ELSE Leave(exc_type, ExitValue),
                  !.value = r.outcome]

---------------------------------------------------------------------------
(* run_code and run_requirements_compliance *)

\* a byte string of the runtime (None when a stream delivered nothing)
Bytes(b) == [bytes |-> b]

\* bytes.decode("utf-8"), on the bytes used here: ASCII bytes are characters,
\* a byte of 128 or more on its own is not valid UTF-8
Utf8Char(byte) ==
    CASE byte = 104 -> "h"
      [] byte = 105 -> "i"
      [] byte = 33 -> "!"
      [] OTHER -> "?"

Decodable(b) == \A i \in 1..Len(b) : b[i] < 128

RECURSIVE Decode(_)
Decode(b) == IF b = <<>> THEN "" ELSE Utf8Char(Head(b)) \o Decode(Tail(b))

\* lines 274-275: x.decode("utf-8") if x else ""
DecodeStream(stream) ==
    IF stream = None THEN ""
    ELSE IF stream.bytes = <<>> THEN ""
    ELSE Decode(stream.bytes)

StreamDecodable(stream) == stream = None \/ Decodable(stream.bytes)

SandboxResponse(stdout, stderr) == [stdout |-> stdout, stderr |-> stderr]

\* a run time that no deadline reaches: the code never terminates
Forever == 1000000

\* what a piece of code does when it is run: exit status, what it writes to
\* the two streams, and the seconds it runs
CodeRun(status, stdout, stderr, seconds) ==
    [ status |-> status, stdout |-> stdout, stderr |-> stderr,
      seconds |-> seconds ]

\* the codes the caller passes, each standing for what it does
Codes ==
    { CodeRun(0, Bytes(<<104, 105>>), None, 1),        \* prints, exits 0
      CodeRun(0, Bytes(<<104>>), Bytes(<<33>>), 1),    \* writes both, exits 0
      CodeRun(1, None, Bytes(<<33>>), 1),              \* fails with a message
      CodeRun(2, Bytes(<<104>>), None, 1),             \* prints, exits 2
      CodeRun(0, Bytes(<<255>>), None, 1),             \* prints a raw byte
      CodeRun(0, None, None, 10),                      \* sleeps 10 seconds
      CodeRun(0, None, None, Forever) }                \* never terminates

\* timeout: None, or a number of seconds
Seconds(n) == [seconds |-> n]
Timeouts == {None, Seconds(0), Seconds(5)}

\* env_vars: None, or a dict
EnvVars == {None, [vars |-> {<<"example", "1">>}]}

\* _prepare_code_command: the interpreter of the language on the code
PrepareCodeCommand(coding_language, code) ==
    [ interpreter |-> IF coding_language = "python" THEN "python -c"
                      ELSE "node -e",
      code |-> code ]

\* if timeout: a timeout of None or 0 is false
Truthy(timeout) == timeout /= None /\ timeout.seconds /= 0

\* no wrapper, whatever the timeout
ExecCommandUnwrapped(command, timeout) == command

\* lines 262-263
ExecCommand(command, timeout) ==
    IF Truthy(timeout)
    THEN [ wrapper |-> "timeout", seconds |-> timeout.seconds,
           command |-> command ]
    ELSE command

\* the exit status of timeout(1) when the deadline ended the command
TimeoutStatus == 124

\* what the runtime's exec_run answers for sh -c <command>, demux=True: the
\* wrapper ends a command that runs past the deadline with TimeoutStatus and
\* what it wrote until then; an unwrapped command runs until the code ends
ExecRun(exec_command) ==
    LET wrapped == "wrapper" \in DOMAIN exec_command
        run == IF wrapped THEN exec_command.command.code ELSE exec_command.code
        expired == /\ wrapped
                   /\ exec_command.seconds > 0
                   /\ run.seconds > exec_command.seconds
    IN  IF expired
        THEN [ returns |-> TRUE, exit_code |-> TimeoutStatus,
               output |-> <<None, None>> ]
        ELSE [ returns |-> run.seconds < Forever, exit_code |-> run.status,
               output |-> <<run.stdout, run.stderr>> ]

\* a result that does not report the exit status
ExitCodePrefixDropped(status) == ""

\* line 278
ExitCodePrefix(status) == "(exit code " \o ToString(status) \o ")"

\* both streams delivered as one
StdoutMerged(output) ==
    IF output[1] = None THEN output[2]
    ELSE IF output[2] = None THEN output[1]
    ELSE Bytes(output[1].bytes \o output[2].bytes)

\* line 272 with demux=True: the two streams apart
Stdout(output) == output[1]
Stderr(output) == output[2]

\* run_code, lines 240-280
run_code(obj, cl, code, env_vars, timeout) ==
    LET environment == IF env_vars = None THEN [vars |-> {}] ELSE env_vars
        exec_command ==
            ExecCommand(PrepareCodeCommand(obj.coding_language, code), timeout)
        exec_result == ExecRun(exec_command)
        exec_run == Call("exec_run", [ argv |-> <<"sh", "-c", exec_command>>,
                                       environment |-> environment ])
                    @@ [answer |-> exec_result]
        status == exec_result.exit_code
        stdout == Stdout(exec_result.output)
        stderr == Stderr(exec_result.output)
    IN  IF obj.container = None
        THEN Result(obj, cl, "AttributeError", None, <<>>)
        ELSE IF ~exec_result.returns
        THEN Result(obj, cl, "blocked", None, <<exec_run>>)
        ELSE IF ~StreamDecodable(stdout) \/ ~StreamDecodable(stderr)
        THEN Result(obj, cl, "UnicodeDecodeError", None, <<exec_run>>)
        ELSE Result(obj, cl, "ok",
                    SandboxResponse(
                        DecodeStream(stdout),
                        IF status /= 0
                        THEN ExitCodePrefix(status) \o DecodeStream(stderr)
                        ELSE DecodeStream(stderr)),
                    <<exec_run>>)

\* _compliance_script: the script of the language for the requirements, as
\* what it does when run: all requirements met, or some missing
ComplianceScripts ==
    { CodeRun(0, None, None, 1), CodeRun(1, None, Bytes(<<33>>), 1) }

RequirementsFreeBare == "requirements-free sandbox"

RequirementsFree == "SandboxRequirementsError: requirements-free sandbox"

\* a variant that looks at the sandbox's own requirements first
RunRequirementsComplianceOwnFirst(obj, cl, requirements, script) ==
    IF obj.requirements = <<>>
    THEN Result(obj, cl, "ok", SandboxResponse("", RequirementsFree), <<>>)
    ELSE IF requirements = <<>>
    THEN Result(obj, cl, "ok", SandboxResponse("", ""), <<>>)
    ELSE run_code(obj, cl, script, None, None)

\* a variant that raises when the script reports a failure
RunRequirementsComplianceRaising(obj, cl, requirements, script) ==
    IF requirements = <<>>
    THEN Result(obj, cl, "ok", SandboxResponse("", ""), <<>>)
    ELSE IF obj.requirements = <<>>
    THEN Result(obj, cl, "ok", SandboxResponse("", RequirementsFree), <<>>)
    ELSE LET r == run_code(obj, cl, script, None, None)
         IN  IF r.outcome = "ok" /\ script.status /= 0
             THEN [r EXCEPT !.outcome = "SandboxRequirementsError",
                            !.value = None]
             ELSE r

\* run_requirements_compliance, lines 224-238
run_requirements_compliance(obj, cl, requirements, script) ==
    IF requirements = <<>>
    THEN Result(obj, cl, "ok", SandboxResponse("", ""), <<>>)
    ELSE IF obj.requirements = <<>>
    THEN Result(obj, cl, "ok", SandboxResponse("", RequirementsFree), <<>>)
    ELSE run_code(obj, cl, script, None, None)

---------------------------------------------------------------------------
(* write_file, read_file, delete_file, write_dir, delete_dir *)

\* the file names and directories the caller passes, relative paths
Filenames == {"c.txt", "a/b/c.txt"}
Directories == {"a/b"}

\* content: a str or bytes
Text(s) == [text |-> s]
Contents == { Text("hi") }

\* str.encode("utf-8") on the characters used here
Utf8Byte(char) ==
    CASE char = "h" -> 104
      [] char = "i" -> 105
      [] char = "!" -> 33
      [] OTHER -> 63

Encode(s) == [i \in 1..Len(s) |-> Utf8Byte(SubSeq(s, i, i))]

\* os.path.dirname
Slashes(path) == { i \in 1..Len(path) : SubSeq(path, i, i) = "/" }

\* a dirname that finds no directory in a path
DirnameEmpty(path) == ""

Dirname(path) ==
    IF Slashes(path) = {} THEN ""
    ELSE LET last_slash == CHOOSE i \in Slashes(path) :
                               \A j \in Slashes(path) : j <= i
         IN  SubSeq(path, 1, last_slash - 1)

\* the path a command of the container means by a relative path
Absolute(workdir, path) ==
    IF workdir = "/" THEN "/" \o path ELSE workdir \o "/" \o path

\* a directory and the directories above it, below the root
RECURSIVE Ancestors(_)
Ancestors(path) ==
    IF Dirname(path) = "" THEN {path}
    ELSE {path} \cup Ancestors(Dirname(path))

\* path lies in directory
Below(path, directory) ==
    /\ Len(path) > Len(directory)
    /\ SubSeq(path, 1, Len(directory) + 1) = directory \o "/"

FileAt(cl, path) == { f \in cl.files : f.path = path }

\* put_archive('/', tar) of a tar with the one member filename: the member
\* is extracted below /, with the directories it needs
PutArchive(cl, filename, file_data) ==
    LET path == "/" \o filename IN
    [cl EXCEPT !.files = (@ \ FileAt(cl, path))
                             \cup {[path |-> path, data |-> file_data]},
               !.dirs = IF Dirname(path) = "" THEN @
                        ELSE @ \cup Ancestors(Dirname(path))]

\* what the commands do in the container, run in its working directory
Mkdir(cl, directory) ==
    [cl EXCEPT !.dirs =
        @ \cup Ancestors(Absolute(cl.container.workdir, directory))]

Rm(cl, filename) ==
    [cl EXCEPT !.files =
        @ \ FileAt(cl, Absolute(cl.container.workdir, filename))]

RmTree(cl, directory) ==
    LET path == Absolute(cl.container.workdir, directory) IN
    [cl EXCEPT !.dirs = { d \in @ : d /= path /\ ~Below(d, path) },
               !.files = { f \in @ : ~Below(f.path, path) }]

\* a check that always passes
TestFileAlways(cl, filename) == TRUE

TestFile(cl, filename) ==
    FileAt(cl, Absolute(cl.container.workdir, filename)) /= {}

\* write_dir, lines 192-206: mkdir_ok is whether mkdir -p exits with 0
write_dir(obj, cl, directory, mkdir_ok) ==
    LET mkdir == Call("exec_run", <<"sh", "-c", "mkdir -p", directory>>) IN
    IF obj.container = None
    THEN Result(obj, cl, "AttributeError", None, <<>>)
    ELSE IF ~mkdir_ok
    THEN Result(obj, cl, "SandboxError", "Failed to create directory", <<mkdir>>)
    ELSE Result(obj, Mkdir(cl, directory), "ok", None, <<mkdir>>)

\* delete_dir, lines 208-222
delete_dir(obj, cl, directory, rm_ok) ==
    LET rmdir == Call("exec_run", <<"sh", "-c", "rm -rf", directory>>) IN
    IF obj.container = None
    THEN Result(obj, cl, "AttributeError", None, <<>>)
    ELSE IF ~rm_ok
    THEN Result(obj, cl, "SandboxError", "Failed to delete directory", <<rmdir>>)
    ELSE Result(obj, RmTree(cl, directory), "ok", None, <<rmdir>>)

\* delete_file, lines 176-190
delete_file(obj, cl, filename, rm_ok) ==
    LET delete == Call("exec_run", <<"sh", "-c", "rm -f", filename>>) IN
    IF obj.container = None
    THEN Result(obj, cl, "AttributeError", None, <<>>)
    ELSE IF ~rm_ok
    THEN Result(obj, cl, "SandboxError", "Failed to delete file", <<delete>>)
    ELSE Result(obj, Rm(cl, filename), "ok", None, <<delete>>)

\* read_file, lines 156-174: cat exits with 0 when the file is there
read_file(obj, cl, filename) ==
    LET cat == Call("exec_run", <<"cat", filename>>)
        found == FileAt(cl, Absolute(cl.container.workdir, filename))
        data == (CHOOSE f \in found : TRUE).data
    IN  IF obj.container = None
        THEN Result(obj, cl, "AttributeError", None, <<>>)
        ELSE IF found = {}
        THEN Result(obj, cl, "SandboxError", "Failed to read file", <<cat>>)
        ELSE IF ~Decodable(data)
        THEN Result(obj, cl, "UnicodeDecodeError", None, <<cat>>)
        ELSE Result(obj, cl, "ok", Decode(data), <<cat>>)

\* the runtime's answers to put_archive: the archive is extracted, the call
\* raises, or it returns although nothing was written
PutAnswers == {"ok", "raises", "dropped"}

\* write_file, lines 115-154
write_file(obj, cl, filename, content, mkdir_ok, put) ==
    LET directory == Dirname(filename)
        d == IF directory /= "" THEN write_dir(obj, cl, directory, mkdir_ok)
             ELSE Result(obj, cl, "ok", None, <<>>)
        file_data == IF "text" \in DOMAIN content THEN Encode(content.text)
                     ELSE content.bytes
        put_archive == Call("put_archive", <<"/", filename, file_data>>)
        check == Call("exec_run", <<"sh", "-c", "test -f", filename>>)
        written == IF put = "ok" THEN PutArchive(d.client, filename, file_data)
                   ELSE d.client
    IN  IF d.outcome /= "ok" THEN d
        ELSE IF obj.container = None
        THEN Result(obj, cl, "SandboxError", "Failed to write file", d.calls)
        ELSE IF put = "raises"
        THEN Result(obj, d.client, "SandboxError", "Failed to write file",
                    Append(d.calls, put_archive))
        ELSE IF ~TestFile(written, filename)
        THEN Result(obj, written, "SandboxError", "Failed to write file",
                    d.calls \o <<put_archive, check>>)
        ELSE Result(obj, written, "ok", None,
                    d.calls \o <<put_archive, check>>)

---------------------------------------------------------------------------
(* Callers that use the pool one call at a time *)

\* the runtime's answers to images.build and containers.run: both succeed, the
\* build fails, or the build succeeds and the container does not start
RuntimeAnswers ==
    { [build_ok |-> TRUE, run_ok |-> TRUE], [build_ok |-> FALSE, run_ok |-> TRUE],
      [build_ok |-> TRUE, run_ok |-> FALSE] }

Threads == {1, 2}

\* a caller thread between two calls, holding no sandbox
Idle ==
    [ pc |-> "idle", calls |-> 0, packages |-> <<>>, mem_limit |-> None,
      cpu_quota |-> 0, image |-> None, sandbox |-> 0, loaded |-> 0,
      raised |-> "" ]

NoCall == [op |-> "none"]

\* no sandbox object yet, and nothing done with one
InitCodegen ==
    /\ self = NewObject
    /\ client = NewClient
    /\ done = NoCall
    /\ host = DefaultHost

Init ==
    /\ alloc_memory = 0
    /\ alloc_cpu = 0
    /\ image_cache = <<>>
    /\ constraints_cache = <<>>
    /\ images = <<>>
    /\ sandboxes = <<>>
    /\ last = NoCall
    /\ thread = [t \in Threads |-> Idle]
    /\ max_memory = DefaultMaxMemory
    /\ max_cpu = DefaultMaxCpu
    /\ InitCodegen

GetSandbox ==
    \E base_image \in BaseImages, packages \in PackageLists,
       mem_limit \in MemLimits, cpu_quota \in CpuQuotas,
       runtime \in RuntimeAnswers :
        LET r == get_sandbox(base_image, packages, mem_limit, cpu_quota,
                             runtime.build_ok, runtime.run_ok)
        IN  /\ Len(r.sandboxes) <= MaxSandboxes
            /\ Len(r.images) <= MaxImages
            /\ alloc_memory' = r.alloc_memory
            /\ alloc_cpu' = r.alloc_cpu
            /\ image_cache' = r.image_cache
            /\ constraints_cache' = r.constraints_cache
            /\ images' = r.images
            /\ sandboxes' = r.sandboxes
            /\ last' = [ op |-> "get", outcome |-> r.outcome,
                         base_image |-> base_image, packages |-> packages,
                         mem_limit |-> mem_limit, cpu_quota |-> cpu_quota,
                         build |-> r.build, run |-> r.run, image |-> r.image,
                         sandbox |-> IF r.outcome = "ok" THEN Len(r.sandboxes) ELSE 0,
                         pre_memory |-> alloc_memory, pre_cpu |-> alloc_cpu ]
            /\ UNCHANGED <<thread, ceilings, codegen_vars, host>>

ReleaseSandbox ==
    \E s \in 1..Len(sandboxes) :
        /\ sandboxes[s].releases < MaxReleases
        /\ alloc_memory' = alloc_memory - ReleasedMemory(sandboxes[s])
        /\ alloc_cpu' = alloc_cpu - ReleasedCpu(sandboxes[s])
        /\ sandboxes' = [sandboxes EXCEPT
                           ![s] = [Close(@) EXCEPT !.releases = @ + 1]]
        /\ LET returned == last.op = "get" /\ last.sandbox = s IN
           last' = [ op |-> "release", outcome |-> "ok", sandbox |-> s,
                     after_get |-> returned,
                     pre_memory |-> IF returned THEN last.pre_memory ELSE alloc_memory,
                     pre_cpu |-> IF returned THEN last.pre_cpu ELSE alloc_cpu ]
        /\ UNCHANGED <<image_cache, constraints_cache, images, thread, ceilings, codegen_vars, host>>

\* the caller closes the sandbox itself: close(), the with-block's __exit__
CloseSandbox ==
    \E s \in 1..Len(sandboxes) :
        /\ sandboxes' = [sandboxes EXCEPT ![s] = Close(@)]
        /\ last' = [ op |-> "close", outcome |-> "ok", sandbox |-> s ]
        /\ UNCHANGED <<alloc_memory, alloc_cpu, image_cache, constraints_cache,
                       images, thread, ceilings, codegen_vars, host>>

Next == GetSandbox \/ ReleaseSandbox \/ CloseSandbox

Spec == Init /\ [][Next]_vars

---------------------------------------------------------------------------
(* Callers on several threads.  The pool holds no lock, so a thread can be
   preempted between any two statements of get_sandbox and release_sandbox,
   and inside `x += y` between the load of x and the store; the calls into
   the runtime (images.build, containers.run) block and let other threads
   run.  Each thread calls get_sandbox and then release_sandbox on what it
   got, one call after the other. *)

Goto(t, pc) == [thread EXCEPT ![t].pc = pc]

\* the exception leaves get_sandbox; the thread holds nothing
Raise(t, error) ==
    thread' = [thread EXCEPT ![t].pc = "idle", ![t].image = None, ![t].raised = error]

\* a thread enters get_sandbox(base_image, packages, mem_limit, cpu_quota)
ThreadCall(t) ==
    /\ thread[t].pc = "idle"
    /\ thread[t].sandbox = 0
    /\ thread[t].calls < ThreadCalls
    /\ \E packages \in PackageLists, mem_limit \in MemLimits, cpu_quota \in CpuQuotas :
        thread' = [thread EXCEPT ![t] =
                     [@ EXCEPT !.pc = "check", !.calls = @ + 1, !.packages = packages,
                               !.raised = "",
                               !.mem_limit = mem_limit, !.cpu_quota = cpu_quota]]
    /\ UNCHANGED <<pool_vars, images, sandboxes, last, ceilings, codegen_vars, host>>

\* lines 57-60
ThreadCheck(t) ==
    /\ thread[t].pc = "check"
    /\ LET admission == AdmissionError(alloc_memory, alloc_cpu,
                                       thread[t].mem_limit, thread[t].cpu_quota)
       IN  IF admission = Admitted
           THEN thread' = Goto(t, "lookup")
           ELSE Raise(t, admission)
    /\ UNCHANGED <<pool_vars, images, sandboxes, last, ceilings, codegen_vars, host>>

\* lines 62-71, up to the call of _create_image
ThreadLookup(t) ==
    /\ thread[t].pc = "lookup"
    /\ LET base_image == CHOOSE b \in BaseImages : TRUE
           found == LookupImage(image_cache, constraints_cache,
                                HashRequirements(base_image, thread[t].packages),
                                thread[t].packages)
       IN  CASE found.kind = "TypeError" -> Raise(t, "TypeError")
             [] found.kind = "miss" ->
                    thread' = Goto(t, "build")
             [] OTHER ->
                    /\ thread' = [thread EXCEPT ![t].pc = "run", ![t].image = found.image]
                   
    /\ UNCHANGED <<pool_vars, images, sandboxes, last, ceilings, codegen_vars, host>>

\* _create_image, lines 43-53
ThreadBuild(t) ==
    /\ thread[t].pc = "build"
    /\ \/ /\ Raise(t, "BuildError")
          /\ UNCHANGED <<constraints_cache, images>>
       \/ LET base_image == CHOOSE b \in BaseImages : TRUE
              created == CreateImage(images, constraints_cache, base_image,
                                     thread[t].packages)
          IN  /\ Len(images) < MaxImages
              /\ images' = created.images
              /\ constraints_cache' = created.constraints
              /\ thread' = [thread EXCEPT ![t].pc = "store", ![t].image = created.image]
             
    /\ UNCHANGED <<alloc_memory, alloc_cpu, image_cache, sandboxes, last, ceilings, codegen_vars, host>>

\* line 73
ThreadStore(t) ==
    /\ thread[t].pc = "store"
    /\ LET base_image == CHOOSE b \in BaseImages : TRUE IN
       image_cache' = CachePut(image_cache,
                               HashRequirements(base_image, thread[t].packages),
                               thread[t].image)
    /\ thread' = Goto(t, "run")
    /\ UNCHANGED <<alloc_memory, alloc_cpu, constraints_cache, images, sandboxes,
                   last, ceilings, codegen_vars, host>>

\* lines 75-79
ThreadRun(t) ==
    /\ thread[t].pc = "run"
    /\ \/ /\ Raise(t, "RunError")
          /\ UNCHANGED sandboxes
       \/ /\ sandboxes' = Append(sandboxes,
                                 NewSandbox(thread[t].image.id, thread[t].mem_limit,
                                            ToCpuQuota(thread[t].cpu_quota)))
          /\ thread' = [thread EXCEPT ![t].pc = "add_memory",
                                      ![t].sandbox = Len(sandboxes) + 1]
         
    /\ UNCHANGED <<pool_vars, images, last, ceilings, codegen_vars, host>>

\* the load of `self.alloc_memory += ...` (line 80, line 86) or of
\* `self.alloc_cpu += ...` (line 81, line 87)
ThreadLoad(t) ==
    /\ \/ /\ thread[t].pc \in {"add_memory", "sub_memory"}
          /\ thread' = [thread EXCEPT ![t].pc = @ \o "_store", ![t].loaded = alloc_memory]
       \/ /\ thread[t].pc \in {"add_cpu", "sub_cpu"}
          /\ thread' = [thread EXCEPT ![t].pc = @ \o "_store", ![t].loaded = alloc_cpu]
    /\ UNCHANGED <<pool_vars, images, sandboxes, last, ceilings, codegen_vars, host>>

\* the stores of lines 80 and 81; line 82 returns the sandbox
ThreadAdd(t) ==
    /\ \/ /\ thread[t].pc = "add_memory_store"
          /\ alloc_memory' = thread[t].loaded + StripFloat(thread[t].mem_limit, "m")
          /\ thread' = Goto(t, "add_cpu")
          /\ UNCHANGED alloc_cpu
       \/ /\ thread[t].pc = "add_cpu_store"
          /\ alloc_cpu' = thread[t].loaded + thread[t].cpu_quota
          /\ thread' = Goto(t, "idle")
          /\ UNCHANGED alloc_memory
    /\ UNCHANGED <<image_cache, constraints_cache, images, sandboxes, last, ceilings, codegen_vars, host>>

\* the thread enters release_sandbox(sandbox) with the sandbox it holds
ThreadRelease(t) ==
    /\ thread[t].pc = "idle"
    /\ thread[t].sandbox # 0
    /\ thread' = Goto(t, "sub_memory")
    /\ UNCHANGED <<pool_vars, images, sandboxes, last, ceilings, codegen_vars, host>>

\* the stores of lines 86 and 87, and sandbox.close() of line 88
ThreadSub(t) ==
    /\ \/ /\ thread[t].pc = "sub_memory_store"
          /\ alloc_memory' = thread[t].loaded - ReleasedMemory(sandboxes[thread[t].sandbox])
          /\ thread' = Goto(t, "sub_cpu")
          /\ UNCHANGED <<alloc_cpu, sandboxes>>
       \/ /\ thread[t].pc = "sub_cpu_store"
          /\ alloc_cpu' = thread[t].loaded - ReleasedCpu(sandboxes[thread[t].sandbox])
          /\ thread' = Goto(t, "close")
          /\ UNCHANGED <<alloc_memory, sandboxes>>
       \/ /\ thread[t].pc = "close"
          /\ sandboxes' = [sandboxes EXCEPT
                             ![thread[t].sandbox] = [Close(@) EXCEPT !.releases = @ + 1]]
          /\ thread' = [thread EXCEPT ![t].pc = "idle", ![t].sandbox = 0,
                                      ![t].image = None]
          /\ UNCHANGED <<alloc_memory, alloc_cpu>>
    /\ UNCHANGED <<image_cache, constraints_cache, images, last, ceilings, codegen_vars, host>>

NextThreads ==
    \E t \in Threads :
        \/ ThreadCall(t)
        \/ ThreadCheck(t)
        \/ ThreadLookup(t)
        \/ ThreadBuild(t)
        \/ ThreadStore(t)
        \/ ThreadRun(t)
        \/ ThreadLoad(t)
        \/ ThreadAdd(t)
        \/ ThreadRelease(t)
        \/ ThreadSub(t)

\* CodegenSandboxPool(max_cpu=0.5): a pool of half a CPU
InitThreads ==
    /\ alloc_memory = 0
    /\ alloc_cpu = 0
    /\ image_cache = <<>>
    /\ constraints_cache = <<>>
    /\ images = <<>>
    /\ sandboxes = <<>>
    /\ last = NoCall
    /\ thread = [t \in Threads |-> Idle]
    /\ max_memory = DefaultMaxMemory
    /\ max_cpu = CpuResolution \div 2
    /\ InitCodegen

SpecThreads == InitThreads /\ [][NextThreads]_vars

---------------------------------------------------------------------------
(* One codegen sandbox and its caller *)

pool_state == <<pool_vars, images, sandboxes, last, thread, ceilings>>

\* the answers of the runtime during close: whether stop and remove succeed,
\* and how many attempts to remove the image fail before one succeeds
CloseAnswers ==
    [ stop_ok : BOOLEAN, remove_ok : BOOLEAN,
      failures : 0..ImageRemovalAttempts ]

\* a call returns or raises: the object and the runtime change as the call
\* changed them, and done records the call
Return(op, args, r) ==
    /\ self' = r.self
    /\ client' = r.client
    /\ done' = [ op |-> op, args |-> args, outcome |-> r.outcome,
                 value |-> r.value, calls |-> r.calls ]
    /\ UNCHANGED <<pool_state, host>>

\* init_codegen_sandbox(coding_language, ...): the constructor
Construct ==
    \E coding_language \in CodingLanguages,
       custom_image_name \in CustomImageNames,
       requirements \in RequirementLists, config \in ConfigNames,
       a \in InitAnswers :
        /\ self.init = "none"
        /\ Return("__init__",
                  [ coding_language |-> coding_language,
                    custom_image_name |-> custom_image_name,
                    requirements |-> requirements, config |-> config ],
                  InitSandbox(self, client, coding_language, custom_image_name,
                              requirements, config, a))

\* sandbox.close() by the caller
CloseCall ==
    \E a \in CloseAnswers :
        /\ self.init = "returned"
        /\ self.closes < MaxCloses
        /\ Return("close", a,
                  close(self, client, a.stop_ok, a.remove_ok, a.failures))

\* the end of a with-block on the sandbox, its body having raised or not
ExitScope ==
    \E a \in CloseAnswers, exc_type \in {NoException, "KeyError"} :
        /\ self.init = "returned"
        /\ self.closes < MaxCloses
        /\ Return("__exit__", a @@ [exc_type |-> exc_type],
                  Exit(self, client, exc_type, a.stop_ok, a.remove_ok,
                       a.failures))

\* __del__, lines 315-317: the object is collected, once nothing refers to
\* it any more; after a constructor that raised, that is after the caller
\* has the exception.  What close raises in __del__ goes no further.
Del ==
    \E a \in CloseAnswers :
        /\ self.init \in {"raised", "returned"}
        /\ LET r == close(self, client, a.stop_ok, a.remove_ok, a.failures)
           IN  Return("__del__", a,
                      [r EXCEPT !.self.init = "collected", !.outcome = "ok",
                                !.value = r.outcome])

RunCode ==
    \E code \in Codes, env_vars \in EnvVars, timeout \in Timeouts :
        /\ self.init = "returned"
        /\ Return("run_code",
                  [code |-> code, env_vars |-> env_vars, timeout |-> timeout],
                  run_code(self, client, code, env_vars, timeout))

RunRequirementsCompliance ==
    \E requirements \in RequirementLists, script \in ComplianceScripts :
        /\ self.init = "returned"
        /\ Return("run_requirements_compliance",
                  [requirements |-> requirements, script |-> script],
                  run_requirements_compliance(self, client, requirements, script))

WriteFile ==
    \E filename \in Filenames, content \in Contents, mkdir_ok \in BOOLEAN,
       put \in PutAnswers :
        /\ self.init = "returned"
        /\ Return("write_file",
                  [ filename |-> filename, content |-> content,
                    mkdir_ok |-> mkdir_ok, put |-> put ],
                  write_file(self, client, filename, content, mkdir_ok, put))

ReadFile ==
    \E filename \in Filenames :
        /\ self.init = "returned"
        /\ Return("read_file", [filename |-> filename],
                  read_file(self, client, filename))

DeleteFile ==
    \E filename \in Filenames, rm_ok \in BOOLEAN :
        /\ self.init = "returned"
        /\ Return("delete_file", [filename |-> filename, rm_ok |-> rm_ok],
                  delete_file(self, client, filename, rm_ok))

WriteDir ==
    \E directory \in Directories, mkdir_ok \in BOOLEAN :
        /\ self.init = "returned"
        /\ Return("write_dir", [directory |-> directory, mkdir_ok |-> mkdir_ok],
                  write_dir(self, client, directory, mkdir_ok))

DeleteDir ==
    \E directory \in Directories, rm_ok \in BOOLEAN :
        /\ self.init = "returned"
        /\ Return("delete_dir", [directory |-> directory, rm_ok |-> rm_ok],
                  delete_dir(self, client, directory, rm_ok))

NextSandbox ==
    \/ Construct
    \/ CloseCall
    \/ ExitScope
    \/ Del
    \/ RunCode
    \/ RunRequirementsCompliance
    \/ WriteFile
    \/ ReadFile
    \/ DeleteFile
    \/ WriteDir
    \/ DeleteDir

SpecSandbox == Init /\ [][NextSandbox]_vars

---------------------------------------------------------------------------
(* The tiers offered on hosts of every capacity *)

\* the program starts on any of the hosts: the ceilings are read once, when
\* config.py is imported
InitConfig ==
    /\ alloc_memory = 0
    /\ alloc_cpu = 0
    /\ image_cache = <<>>
    /\ constraints_cache = <<>>
    /\ images = <<>>
    /\ sandboxes = <<>>
    /\ last = NoCall
    /\ thread = [t \in Threads |-> Idle]
    /\ max_memory = DefaultMaxMemory
    /\ max_cpu = DefaultMaxCpu
    /\ self = NewObject
    /\ client = NewClient
    /\ done = NoCall
    /\ host \in Hosts

\* filtering_available(), called on the host's ceilings
FilteringAvailable ==
    /\ self.init = "none"
    /\ done.op /= "filtering_available"
    /\ done' = [ op |-> "filtering_available", args |-> host,
                 outcome |-> "ok", value |-> filtering_available(host),
                 calls |-> <<>> ]
    /\ UNCHANGED <<pool_state, self, client, host>>

NextConfig ==
    \/ FilteringAvailable
    \/ Construct

SpecConfig == InitConfig /\ [][NextConfig]_vars


---------------------------------------------------------------------------
(* Quantities the claims speak of *)

Rejections == {MemoryExceeded, CpuExceeded}

\* the sandboxes admitted and not yet released
Live == { s \in 1..Len(sandboxes) : sandboxes[s].releases = 0 }

RECURSIVE SumMemory(_)
SumMemory(S) ==
    IF S = {} THEN 0
    ELSE LET s == CHOOSE x \in S : TRUE
         IN  StripFloat(sandboxes[s].mem_limit, "m") + SumMemory(S \ {s})

RECURSIVE SumCpuQuota(_)
SumCpuQuota(S) ==
    IF S = {} THEN 0
    ELSE LET s == CHOOSE x \in S : TRUE
         IN  sandboxes[s].cpu_quota + SumCpuQuota(S \ {s})

\* the cache key under which the runtime's image n was built
KeyOfImage(n) == HashRequirements(images[n].base, images[n].packages)

\* the cache key of the request of the last call
LastKey(call) == HashRequirements(call.base_image, call.packages)

\* a requested specifier that is the recorded one satisfies it
SpecifierSatisfies(requested, recorded) == requested = recorded

\* the declared constraints of a cached image cover every requested package
DeclaredCompatible(image, packages) ==
    /\ image.id \in DOMAIN constraints_cache
    /\ \A i \in 1..Len(packages) :
        /\ RequirementName(packages[i]) \in DOMAIN constraints_cache[image.id]
        /\ SpecifierSatisfies(RequirementSpecifier(packages[i]),
                              constraints_cache[image.id][RequirementName(packages[i])])

---------------------------------------------------------------------------
(* Claims *)

\* C1: after any sequence of get_sandbox and release_sandbox calls made one at
\* a time, the memory limits of the sandboxes admitted and not yet released
\* sum to at most pool.max_memory and their CPU quotas to at most pool.max_cpu.
C1_LiveWithinCeilings ==
    /\ SumMemory(Live) <= MaxMemoryMegabytes
    /\ FromCpuQuota(SumCpuQuota(Live)) <= max_cpu

\* C2: with concurrent callers of get_sandbox, check and increment of each
\* admission are one critical section, so allocated memory and CPU never
\* exceed the pool ceilings.
C2_AllocatedWithinCeilings ==
    /\ alloc_memory <= MaxMemoryMegabytes
    /\ alloc_cpu <= max_cpu

\* C3: the admission check of get_sandbox passes exactly when allocated plus
\* requested memory is at most max_memory and allocated plus requested cpu is
\* at most max_cpu, on the counters as they were before the call.
C3_AdmittedIffFits ==
    last.op = "get" =>
        ( last.outcome \notin Rejections
          <=> /\ last.pre_memory + StripFloat(last.mem_limit, "m") <= MaxMemoryMegabytes
              /\ last.pre_cpu + last.cpu_quota <= max_cpu )

\* a request that fits the remaining memory exactly was admitted
C3_ExactFitAdmitted ==
    /\ last.op = "get"
    /\ last.outcome = "ok"
    /\ last.pre_memory > 0
    /\ last.pre_memory + StripFloat(last.mem_limit, "m") = MaxMemoryMegabytes

\* C4: get_sandbox followed immediately by release_sandbox of the returned
\* sandbox leaves alloc_memory and alloc_cpu as they were before the admit.
C4_AdmitReleaseRestoresCounters ==
    (last.op = "release" /\ last.after_get) =>
        /\ alloc_memory = last.pre_memory
        /\ alloc_cpu = last.pre_cpu

\* C5: a rejected admission names the dimension that was exceeded, leaves the
\* counters, the image cache and the constraints cache unchanged, and builds
\* no image and starts no container.
C5_RejectionNamesDimensionAndChangesNothing ==
    /\ [](last.op = "get" =>
            /\ last.outcome = MemoryExceeded =>
                 last.pre_memory + StripFloat(last.mem_limit, "m") > MaxMemoryMegabytes
            /\ last.outcome = CpuExceeded =>
                 last.pre_cpu + last.cpu_quota > max_cpu
            /\ last.outcome \in Rejections =>
                 last.build = "none" /\ last.run = "none")
    /\ [][(last'.op = "get" /\ last'.outcome \in Rejections) =>
            UNCHANGED <<pool_vars, images, sandboxes>>]_vars

\* a request was turned away for its CPU share while sandboxes and cached
\* images existed
C5_CpuRejectedOnUsedPool ==
    /\ last.op = "get"
    /\ last.outcome = CpuExceeded
    /\ Live # {}
    /\ Len(image_cache) > 0

\* C6: once a sandbox obtained from the pool is closed, its allocation has been
\* subtracted from the pool counters exactly once, however often close or
\* release was invoked on it.
C6_ReleasedExactlyOnce ==
    \A s \in 1..Len(sandboxes) :
        sandboxes[s].container = "None" => sandboxes[s].releases = 1

\* C7: resolving the same (base_image, requirements) again builds nothing: no
\* two images of the runtime were built for the same cache key, and a call
\* whose key is in the cache leaves the runtime's images alone and hands out
\* the cached image.
C7_OneBuildPerKey ==
    /\ [](\A i, j \in 1..Len(images) : KeyOfImage(i) = KeyOfImage(j) => i = j)
    /\ [][(last'.op = "get" /\ LastKey(last') \in CacheKeys(image_cache)) =>
            /\ images' = images
            /\ last'.build = "none"
            /\ last'.outcome = "ok" =>
                 last'.image = CacheGet(image_cache, LastKey(last')).id]_vars

\* a second sandbox was handed out on the image built for the first
C7_SecondRequestServedFromCache ==
    /\ last.op = "get"
    /\ last.outcome = "ok"
    /\ last.build = "none"
    /\ \E s \in 1..Len(sandboxes) :
        s # last.sandbox /\ sandboxes[s].image = sandboxes[last.sandbox].image

\* C8: on an exact-key miss, when some cached image records for every requested
\* package a constraint the requested specifier satisfies, get_sandbox reuses
\* that image and performs no build.
C8_CompatibleImageReused ==
    [][( /\ last'.op = "get"
         /\ last'.outcome \notin Rejections
         /\ LastKey(last') \notin CacheKeys(image_cache)
         /\ \E i \in 1..Len(image_cache) :
              DeclaredCompatible(image_cache[i].image, last'.packages) )
       => /\ last'.build = "none"
          /\ images' = images]_vars

\* C9: the exact-key lookup and the compatibility scan never fail, and a failed
\* image build leaves image_cache, constraints_cache and the allocation
\* counters as they were.
C9_LookupsTotalFailedBuildLeavesNothing ==
    /\ [](last.op = "get" => last.outcome # "TypeError")
    /\ [][(last'.op = "get" /\ last'.outcome = "BuildError") =>
            UNCHANGED <<pool_vars, images>>]_vars

\* a build failed after the compatibility scan went over a cached image
C9_BuildFailedAfterScan ==
    /\ last.op = "get"
    /\ last.outcome = "BuildError"
    /\ last.build = "failed"
    /\ Len(image_cache) > 0

\* C10: two callers that concurrently request the same (base_image,
\* requirements) on an empty cache are serialized on that key: the image is
\* built at most once and both end up with the same image.
C10_ConcurrentMissesBuildOnce ==
    /\ \A i, j \in 1..Len(images) : i # j => KeyOfImage(i) # KeyOfImage(j)
    /\ \A s, u \in 1..Len(sandboxes) :
         KeyOfImage(sandboxes[s].image.sha) = KeyOfImage(sandboxes[u].image.sha)
            => sandboxes[s].image = sandboxes[u].image

---------------------------------------------------------------------------
(* Quantities the claims about the codegen sandbox speak of *)

\* the calls that run close: close itself, the destructor, the with-block
CloseOps == {"close", "__del__", "__exit__"}

\* the calls that use the container of the sandbox
ContainerOps ==
    { "run_code", "read_file", "write_file", "delete_file", "write_dir",
      "delete_dir", "run_requirements_compliance" }

\* how the close inside the last call ended
CloseOutcome == IF done.op = "close" THEN done.outcome ELSE done.value

\* a handle or image is held: the attribute is neither missing nor None
Held(attribute) == attribute \notin {Unset, None}

\* the positions of the calls of one kind among the runtime calls of a call
CallsOf(calls, name) == { i \in 1..Len(calls) : calls[i].call = name }

\* the text of a stream: its bytes decoded, nothing when it is absent
Decoded(stream) == IF stream = None THEN "" ELSE Decode(stream.bytes)

\* text contains part
Contains(text, part) ==
    \E i \in 1..Len(text) :
        /\ i + Len(part) - 1 <= Len(text)
        /\ SubSeq(text, i, i + Len(part) - 1) = part

---------------------------------------------------------------------------
(* Claims about the codegen sandbox *)

\* C11: when sandbox creation fails, everything the attempt did is undone
\* by the time the caller has the error: the runtime holds no image built by
\* the attempt and no container, and the sandbox holds no container.
C11_FailedCreationRolledBack ==
    (done.op = "__init__" /\ done.outcome /= "ok")
        => /\ client.images = NewClient.images
           /\ client.container.state = "none"
           /\ ~Held(self.container)

\* C12: once close has returned, every call that uses the container fails
\* and makes no call to the runtime, and the sandbox holds no container
\* again.
C12_ClosedIsTerminal ==
    self.closes > 0
        => /\ self.container = None
           /\ done.op \in ContainerOps
                => done.outcome /= "ok" /\ done.calls = <<>>

\* C13: close never raises, whatever state the sandbox is in and whatever
\* the runtime answers, also when the destructor runs it on an object whose
\* constructor raised.
C13_CloseNeverRaises ==
    done.op \in CloseOps => CloseOutcome = "ok"

\* C14: in close a failing step does not keep the others from running: with
\* a container held, stop is followed by remove even when stop failed, and
\* with an image owned, its removal is attempted whatever happened before.
C14_TeardownStepsIndependent ==
    [][ done'.op \in CloseOps
          => /\ Held(self.container)
                  => /\ CallsOf(done'.calls, "container.stop") /= {}
                     /\ CallsOf(done'.calls, "container.remove") /= {}
             /\ Held(self.temp_image)
                  => CallsOf(done'.calls, "images.remove") /= {} ]_vars

\* C15: a close on a sandbox that owns its image tries to remove the image
\* at least once and at most 3 times, never again after an attempt that
\* succeeded, and returns normally also when every attempt failed.
C15_ImageRemovalBounded ==
    [][ (done'.op \in CloseOps /\ Held(self.temp_image))
          => LET attempts == Cardinality(CallsOf(done'.calls, "images.remove"))
                 failures == done'.args.failures
             IN  /\ attempts >= 1
                 /\ attempts <= 3
                 /\ failures < 3 => attempts = failures + 1
                 /\ (IF done'.op = "close" THEN done'.outcome ELSE done'.value)
                        = "ok" ]_vars

\* a close whose three attempts to remove the owned image all failed
C15_AllAttemptsFailed ==
    /\ done.op = "close"
    /\ done.outcome = "ok"
    /\ Cardinality(CallsOf(done.calls, "images.remove")) = 3
    /\ done.args.failures = 3
    /\ \E i \in CallsOf(done.calls, "images.remove") :
           done.calls[i].args \in client.images

\* C16: close removes no image but the one the sandbox built for itself:
\* every removal asked of the runtime names the sandbox's temp_image, an
\* image built by its constructor, and the base images and the image of the
\* pool's cache that was passed as custom image stay in the runtime.
C16_OnlyOwnImageRemoved ==
    [][ /\ \A i \in CallsOf(done'.calls, "images.remove") :
              /\ Held(self.temp_image)
              /\ done'.calls[i].args = self.temp_image.id
              /\ done'.calls[i].args \notin NewClient.images
        /\ NewClient.images \subseteq client'.images ]_vars

\* a sandbox with requirements was closed: the image it built and ran is
\* gone, the images it did not build are all still there
C16_BuiltImageRemovedOthersKept ==
    /\ done.op = "close"
    /\ client.container.state /= "none"
    /\ \E i \in CallsOf(done.calls, "images.remove") :
           /\ done.calls[i].args = client.container.image
           /\ done.calls[i].args \notin client.images
    /\ NewClient.images \subseteq client.images

\* C17: leaving a with-block on the sandbox runs close, whether the body
\* ended normally or raised, and an exception of the body reaches the caller.
C17_ScopeExitClosesAndPropagates ==
    [][ done'.op = "__exit__"
          => /\ self'.closes = self.closes + 1
             /\ self'.container = None
             /\ self'.temp_image = None
             /\ Held(self.container)
                  => CallsOf(done'.calls, "container.stop") /= {}
             /\ done'.value = "ok"
             /\ done'.outcome = IF done'.args.exc_type = NoException
                                THEN "ok" ELSE done'.args.exc_type ]_vars

\* the body of a with-block raised on a running sandbox: the container was
\* stopped and the caller has the body's exception
C17_BodyRaisedScopeClosed ==
    /\ done.op = "__exit__"
    /\ done.args.exc_type = "KeyError"
    /\ done.outcome = "KeyError"
    /\ CallsOf(done.calls, "container.stop") /= {}
    /\ self.container = None

\* the answer of the runtime to the exec_run of the last run_code
ExecAnswer == done.calls[1].answer

\* the last call was a run_code that reached the runtime and came back with
\* output that is valid UTF-8
RunCodeAnswered ==
    /\ done.op = "run_code"
    /\ done.calls /= <<>>
    /\ ExecAnswer.returns
    /\ StreamDecodable(ExecAnswer.output[1])
    /\ StreamDecodable(ExecAnswer.output[2])

\* C18: run_code does not raise on account of the exit status: whatever
\* status s and output (out, err) the runtime delivers, it returns a result
\* with stdout = out decoded and with stderr = err decoded when s = 0 and
\* "(exit code s)" followed by err decoded when s /= 0.
C18_ExitStatusReportedNotRaised ==
    RunCodeAnswered
        => LET s == ExecAnswer.exit_code
               out == Decoded(ExecAnswer.output[1])
               err == Decoded(ExecAnswer.output[2])
           IN  /\ done.outcome = "ok"
               /\ done.value.stdout = out
               /\ s = 0 => done.value.stderr = err
               /\ s /= 0 => done.value.stderr
                                = "(exit code " \o ToString(s) \o ")" \o err

\* code that failed with status 1 and a message on stderr was reported
C18_FailureReported ==
    /\ RunCodeAnswered
    /\ ExecAnswer.exit_code = 1
    /\ done.outcome = "ok"
    /\ done.value.stdout = ""
    /\ done.value.stderr = "(exit code 1)!"

\* C19: the two streams are never merged: stdout of the result is what the
\* runtime delivered on the stdout stream and nothing else ("" when the
\* stream is absent), whatever the exit status, and a run with status 0 and
\* nothing on stderr has stderr "".
C19_StreamsKeptApart ==
    (RunCodeAnswered /\ done.outcome = "ok")
        => /\ done.value.stdout = Decoded(ExecAnswer.output[1])
           /\ ExecAnswer.output[1] = None => done.value.stdout = ""
           /\ ~Contains(done.value.stdout, "exit code")
           /\ (ExecAnswer.exit_code = 0 /\ ExecAnswer.output[2] = None)
                => done.value.stderr = ""

\* code that wrote to both streams and exited with 0: each text is in its
\* own field of the result
C19_BothStreamsWritten ==
    /\ RunCodeAnswered
    /\ done.outcome = "ok"
    /\ ExecAnswer.exit_code = 0
    /\ done.value.stdout = "h"
    /\ done.value.stderr = "!"

\* C20: run_code called with a timeout on code that is still running at the
\* deadline and has written nothing returns, with "exit code 124" in stderr
\* and an empty stdout.
C20_TimeoutEndsRun ==
    ( /\ done.op = "run_code"
      /\ Held(self.container)
      /\ done.args.timeout /= None
      /\ done.args.timeout.seconds > 0
      /\ done.args.code.seconds > done.args.timeout.seconds
      /\ done.args.code.stdout = None
      /\ done.args.code.stderr = None )
        => /\ done.outcome = "ok"
           /\ ExecAnswer.exit_code = 124
           /\ Contains(done.value.stderr, "exit code 124")
           /\ done.value.stdout = ""

\* code that never terminates was run with a timeout of 5 seconds, and
\* run_code returned
C20_EndlessCodeTimedOut ==
    /\ done.op = "run_code"
    /\ done.args.timeout = Seconds(5)
    /\ done.args.code.seconds = Forever
    /\ done.outcome = "ok"
    /\ done.value.stderr = "(exit code 124)"

\* the command handed to sh -c by the last run_code
ExecArgv == done.calls[1].args.argv[3]

\* C21: run_code wraps the command with the timeout prefix exactly when the
\* caller passed a timeout, whatever its value; without a timeout the
\* command runs unwrapped and run_code returns only when the code has ended,
\* with the code's own exit status.
C21_WrappedIffTimeoutPassed ==
    (done.op = "run_code" /\ done.calls /= <<>>)
        => /\ ("wrapper" \in DOMAIN ExecArgv) <=> (done.args.timeout /= None)
           /\ done.args.timeout = None
                => /\ ExecArgv
                        = PrepareCodeCommand(self.coding_language,
                                             done.args.code)
                   /\ done.outcome /= "blocked"
                        => /\ done.args.code.seconds < Forever
                           /\ ExecAnswer.exit_code = done.args.code.status

\* C22: run_requirements_compliance with an empty list returns stdout ""
\* and stderr "" on every sandbox, whatever its own requirements, and makes
\* no call to the runtime.
C22_EmptyListEmptyResult ==
    ( /\ done.op = "run_requirements_compliance"
      /\ done.args.requirements = <<>> )
        => /\ done.outcome = "ok"
           /\ done.value = [stdout |-> "", stderr |-> ""]
           /\ done.calls = <<>>

\* a sandbox created with requirements was asked about an empty list
C22_EmptyListOnSandboxWithRequirements ==
    /\ done.op = "run_requirements_compliance"
    /\ done.args.requirements = <<>>
    /\ self.requirements /= <<>>
    /\ Held(self.container)
    /\ done.value = [stdout |-> "", stderr |-> ""]

\* C23: run_requirements_compliance with a non-empty list on a sandbox
\* created with no requirements returns stdout "" and stderr
\* "SandboxRequirementsError: requirements-free sandbox", and makes no call
\* to the runtime.
C23_RequirementsFreeResponse ==
    ( /\ done.op = "run_requirements_compliance"
      /\ done.args.requirements /= <<>>
      /\ self.requirements = <<>> )
        => /\ done.outcome = "ok"
           /\ done.value.stdout = ""
           /\ done.value.stderr
                = "SandboxRequirementsError: requirements-free sandbox"
           /\ done.calls = <<>>

\* a running sandbox without requirements was asked about numpy
C23_AskedOnRequirementsFreeSandbox ==
    /\ done.op = "run_requirements_compliance"
    /\ done.args.requirements = <<"numpy>=1.20">>
    /\ self.requirements = <<>>
    /\ Held(self.container)
    /\ done.outcome = "ok"

\* the last call asked a running sandbox with requirements about a non-empty
\* list
ComplianceScriptRun ==
    /\ done.op = "run_requirements_compliance"
    /\ done.args.requirements /= <<>>
    /\ self.requirements /= <<>>
    /\ Held(self.container)

\* C24: with both lists non-empty, run_requirements_compliance on a running
\* sandbox returns what run_code returns for the compliance script; a script
\* that exits with a status other than 0 gives a result whose stderr is the
\* exit-code prefix followed by the script's message, not an exception.
C24_ComplianceIsRunCode ==
    ComplianceScriptRun
        => LET script == done.args.script
               r == run_code(self, client, script, None, None)
           IN  /\ done.outcome = r.outcome
               /\ done.value = r.value
               /\ done.calls = r.calls
               /\ script.status /= 0
                    => /\ done.outcome = "ok"
                       /\ done.value.stdout = Decoded(script.stdout)
                       /\ done.value.stderr
                            = "(exit code " \o ToString(script.status) \o ")"
                                \o Decoded(script.stderr)

\* the compliance script exited with status 1 and the message "!", and the
\* caller got both in stderr
C24_ComplianceFailureReturned ==
    /\ ComplianceScriptRun
    /\ done.args.script.status = 1
    /\ done.outcome = "ok"
    /\ done.value.stderr = "(exit code 1)!"

\* the file, the directory a command of the container finds under a path
FileExists(path) ==
    FileAt(client, Absolute(client.container.workdir, path)) /= {}

DirectoryExists(path) ==
    Absolute(client.container.workdir, path) \in client.dirs

\* C25: on a running sandbox whose runtime does what it is asked, a
\* write_file followed by a read_file of the same path returns the written
\* content, and a delete_file followed by a read_file of the same path
\* fails with SandboxError.
C25_WriteReadRoundTrip ==
    [][ /\ ( /\ Held(self.container)
             /\ done.op = "write_file"
             /\ done.args.mkdir_ok
             /\ done.args.put = "ok"
             /\ done'.op = "read_file"
             /\ done'.args.filename = done.args.filename )
            => /\ done.outcome = "ok"
               /\ done'.outcome = "ok"
               /\ done'.value = done.args.content.text
        /\ ( /\ Held(self.container)
             /\ done.op = "delete_file"
             /\ done.outcome = "ok"
             /\ done'.op = "read_file"
             /\ done'.args.filename = done.args.filename )
            => done'.outcome = "SandboxError" ]_vars

\* C26: on a running sandbox a mutating file operation that reached the
\* runtime returns without error only when its post-condition holds in the
\* container (write_file: the file exists, delete_file: it is absent,
\* write_dir: the directory exists, delete_dir: it is absent), and fails
\* with SandboxError when it does not hold, also when no call to the runtime
\* raised.
C26_PostConditionChecked ==
    ( /\ Held(self.container)
      /\ done.op \in {"write_file", "delete_file", "write_dir", "delete_dir"}
      /\ done.calls /= <<>> )
        => LET post ==
                 CASE done.op = "write_file" -> FileExists(done.args.filename)
                   [] done.op = "delete_file"
                        -> ~FileExists(done.args.filename)
                   [] done.op = "write_dir"
                        -> DirectoryExists(done.args.directory)
                   [] done.op = "delete_dir"
                        -> ~DirectoryExists(done.args.directory)
           IN  /\ done.outcome = "ok" => post
               /\ ~post => done.outcome = "SandboxError"

\* put_archive returned without writing the file, and write_file failed
C26_UnwrittenFileReported ==
    /\ Held(self.container)
    /\ done.op = "write_file"
    /\ done.args.put = "dropped"
    /\ Len(done.calls) > 1
    /\ ~FileExists(done.args.filename)
    /\ done.outcome = "SandboxError"

---------------------------------------------------------------------------
(* The pool asked for the tiers of the table *)

\* the cpu_quota argument of get_sandbox for a tier: the share of a CPU that
\* the tier's quota is of the period (25000 is 0.25)
TierShare(config) == config.cpu_quota * (CpuResolution \div CpuPeriod)

\* get_sandbox(mem_limit=config.mem_limit, cpu_quota=...) for a tier of
\* readymade
GetSandboxTier ==
    \E base_image \in BaseImages, packages \in PackageLists,
       i \in 1..Len(readymade), runtime \in RuntimeAnswers :
        LET mem_limit == readymade[i].mem_limit
            cpu_quota == TierShare(readymade[i])
            r == get_sandbox(base_image, packages, mem_limit, cpu_quota,
                             runtime.build_ok, runtime.run_ok)
        IN  /\ Len(r.sandboxes) <= MaxSandboxes
            /\ Len(r.images) <= MaxImages
            /\ alloc_memory' = r.alloc_memory
            /\ alloc_cpu' = r.alloc_cpu
            /\ image_cache' = r.image_cache
            /\ constraints_cache' = r.constraints_cache
            /\ images' = r.images
            /\ sandboxes' = r.sandboxes
            /\ last' = [ op |-> "get", outcome |-> r.outcome,
                         base_image |-> base_image, packages |-> packages,
                         mem_limit |-> mem_limit, cpu_quota |-> cpu_quota,
                         build |-> r.build, run |-> r.run, image |-> r.image,
                         sandbox |-> IF r.outcome = "ok" THEN Len(r.sandboxes) ELSE 0,
                         pre_memory |-> alloc_memory, pre_cpu |-> alloc_cpu ]
            /\ UNCHANGED <<thread, ceilings, codegen_vars, host>>

NextTiers == GetSandboxTier \/ ReleaseSandbox \/ CloseSandbox

SpecTiers == Init /\ [][NextTiers]_vars

---------------------------------------------------------------------------
(* Claims about the tiers *)

\* the positions in the table of the tiers a set of names holds
Positions(names) == { i \in 1..Len(readymade) : readymade[i].naming \in names }

\* the tier at position i lies strictly under both ceilings of the host
StrictlyUnder(i) ==
    /\ MemLimitToInt(readymade[i].mem_limit) < MaxMemLimit(host)
    /\ readymade[i].cpu_quota < MaxCpuQuota(host)

\* C27: on every host, every tier that filtering_available returns has a
\* memory limit strictly less than the host's memory ceiling and a cpu
\* quota strictly less than its cpu ceiling.
C27_AvailableStrictlyUnderCeilings ==
    done.op = "filtering_available"
        => \A i \in Positions(done.value.available) : StrictlyUnder(i)

\* C28: on every host, filtering_available returns exactly the tiers of the
\* table whose memory limit and cpu quota are both strictly under the
\* ceilings, and they are a prefix of the table: no tier after an excluded
\* one is returned.
C28_AvailableIsThePrefixUnderCeilings ==
    done.op = "filtering_available"
        => /\ Positions(done.value.available)
                = { i \in 1..Len(readymade) : StrictlyUnder(i) }
           /\ \A i, j \in 1..Len(readymade) :
                (i < j /\ j \in Positions(done.value.available))
                    => i \in Positions(done.value.available)

\* on a host with 130 megabytes and one CPU only tiny is offered
C27_OnlyTinyFits ==
    /\ done.op = "filtering_available"
    /\ host = [total |-> 130, cpu_count |-> 1]
    /\ done.value.available = {"tiny"}

\* on a host with 4 gigabytes and one CPU the table is cut at large by the
\* cpu ceiling, although the memory limit of large is under its ceiling
C28_CutByCpuCeiling ==
    /\ done.op = "filtering_available"
    /\ host = [total |-> 4096, cpu_count |-> 1]
    /\ done.value.available = {"tiny", "small", "medium"}
    /\ MemLimitToInt(readymade[4].mem_limit) < MaxMemLimit(host)

\* the name of the last tier of the table the host offers, "null" when it
\* offers none
LargestAvailable ==
    LET offered == Positions(available)
    IN  IF offered = {} THEN "null"
        ELSE readymade[CHOOSE i \in offered : \A j \in offered : j <= i].naming

\* C29: a constructor called with a tier name the host does not offer
\* raises SandboxConfigError without a call to the runtime (no image built,
\* no container started), and the message names the largest tier the host
\* offers, "null" when it offers none.
C29_UnavailableTierRejected ==
    (done.op = "__init__" /\ done.args.config \notin available)
        => /\ done.outcome = "SandboxConfigError"
           /\ done.calls = <<>>
           /\ client = NewClient
           /\ done.value
                = "specs configuration '" \o done.args.config
                    \o "' not available on this system. "
                    \o "The largest available configuration is: '"
                    \o LargestAvailable \o "'"

\* on a host that offers tiny and small, 8xlarge was asked for and the
\* error names small
C29_LargestTierNamed ==
    /\ done.op = "__init__"
    /\ done.args.config = "8xlarge"
    /\ available = {"tiny", "small"}
    /\ done.outcome = "SandboxConfigError"
    /\ Contains(done.value, "is: 'small'")

---------------------------------------------------------------------------
(* Claims about the image of a sandbox *)

\* the image the caller asked for: the custom image, else the base image of
\* the language
AskedImage ==
    IF done.args.custom_image_name /= None THEN done.args.custom_image_name
    ELSE BaseImageName(done.args.coding_language)

\* the builds among the runtime calls of the last call
Builds == CallsOf(done.calls, "images.build")

\* C30: a constructor builds an image only for a non-empty requirement list.
\* With no requirements it makes no build and starts the container from the
\* custom image when one was given, else from the base image of the
\* language; with requirements it builds exactly one image, on that image,
\* and starts the container from the image built.
C30_ImageBuiltOnlyForRequirements ==
    done.op = "__init__"
        => /\ done.args.requirements = <<>>
                => /\ Builds = {}
                   /\ client.images = NewClient.images
                   /\ done.outcome = "ok"
                        => /\ client.container.image = AskedImage
                           /\ \A i \in CallsOf(done.calls, "containers.run") :
                                done.calls[i].args = AskedImage
           /\ done.args.requirements /= <<>>
                => /\ Cardinality(Builds) <= 1
                   /\ \A i \in Builds :
                        /\ done.calls[i].args.base = AskedImage
                        /\ done.calls[i].args.packages = done.args.requirements
                   /\ done.outcome = "ok"
                        => /\ Cardinality(Builds) = 1
                           /\ Cardinality(client.images \ NewClient.images) = 1
                           /\ client.container.image
                                \in client.images \ NewClient.images
                           /\ self.temp_image.id = client.container.image
                           /\ \A i \in CallsOf(done.calls, "containers.run") :
                                done.calls[i].args = client.container.image

\* a node sandbox with a requirement was created on a custom image: one
\* image was built on the custom image and the container runs the new image
C30_BuiltOnCustomImage ==
    /\ done.op = "__init__"
    /\ done.outcome = "ok"
    /\ done.args.requirements /= <<>>
    /\ done.args.custom_image_name = CachedImageId
    /\ Cardinality(Builds) = 1
    /\ client.container.image \notin NewClient.images

---------------------------------------------------------------------------
(* Further claims about the pool *)

\* C31: get_sandbox called for a tier of the table, the runtime building
\* and running what it is asked, either returns a sandbox whose memory and
\* CPU share are added to the counters or raises the SandboxError of the
\* admission check; release_sandbox of a sandbox so obtained returns.
C31_TierAdmittedOrRejected ==
    /\ (last.op = "get" /\ last.outcome \notin {"BuildError", "RunError"})
        => \/ last.outcome \in {MemoryExceeded, CpuExceeded}
           \/ /\ last.outcome = "ok"
              /\ alloc_memory = last.pre_memory + last.mem_limit.value
              /\ alloc_cpu = last.pre_cpu + last.cpu_quota
    /\ last.op = "release" => last.outcome = "ok"

\* the two lists hold the same requirements, each as often
Permutation(p, q) ==
    /\ Len(p) = Len(q)
    /\ \A i \in 1..Len(p) :
        Cardinality({ j \in 1..Len(p) : p[j] = p[i] })
            = Cardinality({ j \in 1..Len(q) : q[j] = p[i] })

\* the images of the runtime that are in the cache and were built on the
\* base image of a call from a permutation of its requirement list
CachedForPermutation(call) ==
    { n \in 1..Len(images) :
        /\ images[n].base = call.base_image
        /\ Permutation(images[n].packages, call.packages)
        /\ \E i \in 1..Len(image_cache) : image_cache[i].image = Image(n) }

\* C32: a request that passes admission, on the base image and a
\* permutation of the requirement list of a cached image, is an exact-key
\* hit: nothing is built, the caches stay as they are, the lookup is
\* answered by the key without the compatibility scan, and the sandbox
\* returned runs the cached image.
C32_KeyIgnoresOrder ==
    [][ ( /\ last'.op = "get"
          /\ last'.outcome \in {"ok", "RunError"}
          /\ CachedForPermutation(last') /= {} )
        => /\ last'.build = "none"
           /\ images' = images
           /\ image_cache' = image_cache
           /\ constraints_cache' = constraints_cache
           /\ LookupImage(image_cache, constraints_cache, LastKey(last'),
                          last'.packages).kind = "exact"
           /\ \A n \in CachedForPermutation(last') :
                last'.image = ImageId(n) ]_vars

\* a sandbox was asked for with pandas before numpy and got, without a
\* build, the image built for numpy before pandas
C32_PermutedRequestServedFromCache ==
    /\ last.op = "get"
    /\ last.outcome = "ok"
    /\ last.build = "none"
    /\ last.packages = <<"pandas", "numpy>=1.20">>
    /\ images[last.image.sha].packages = <<"numpy>=1.20", "pandas">>

\* the positions in the cache of the images whose declared constraints cover
\* the packages
CompatiblePositions(packages) ==
    { i \in 1..Len(image_cache) :
        DeclaredCompatible(image_cache[i].image, packages) }

\* C33: on an exact-key miss with compatible images in the cache, the
\* sandbox runs the compatible image that was inserted first, and neither
\* the image cache nor the constraints cache gets an entry.
C33_FirstCompatibleUsedNothingAdded ==
    [][ ( /\ last'.op = "get"
          /\ last'.outcome = "ok"
          /\ LastKey(last') \notin CacheKeys(image_cache)
          /\ CompatiblePositions(last'.packages) /= {} )
        => /\ image_cache' = image_cache
           /\ constraints_cache' = constraints_cache
           /\ LET first == CHOOSE i \in CompatiblePositions(last'.packages) :
                    \A j \in CompatiblePositions(last'.packages) : i <= j
              IN  last'.image = image_cache[first].image.id ]_vars

\* C35: after any sequence of get_sandbox and release_sandbox calls, also
\* with a sandbox released more than once, alloc_memory and alloc_cpu are
\* the sums of the memory limits and CPU shares of the sandboxes handed out
\* and not yet released, and neither is negative.
C35_CountersAreLiveSums ==
    /\ alloc_memory = SumMemory(Live)
    /\ alloc_cpu = FromCpuQuota(SumCpuQuota(Live))
    /\ alloc_memory >= 0
    /\ alloc_cpu >= 0

---------------------------------------------------------------------------
(* Further claims about the codegen sandbox *)

\* C34: on a running sandbox, write_file of a path with a directory in it
\* asks the runtime for the parent directory first and hands over the
\* archive only after that; when the directory cannot be created,
\* write_file raises SandboxError, no archive is handed over and the
\* container stays as it was.
C34_ParentsBeforeArchive ==
    [][ ( /\ done'.op = "write_file"
          /\ Held(self.container)
          /\ Slashes(done'.args.filename) /= {} )
        => /\ done'.calls /= <<>>
           /\ done'.calls[1].call = "exec_run"
           /\ done'.calls[1].args[3] = "mkdir -p"
           /\ done'.args.filename
                = done'.calls[1].args[4] \o "/"
                    \o SubSeq(done'.args.filename,
                              Len(done'.calls[1].args[4]) + 2,
                              Len(done'.args.filename))
           /\ \A i \in CallsOf(done'.calls, "put_archive") : i > 1
           /\ done'.args.mkdir_ok
                => Absolute(client'.container.workdir, done'.calls[1].args[4])
                        \in client'.dirs
           /\ ~done'.args.mkdir_ok
                => /\ done'.outcome = "SandboxError"
                   /\ CallsOf(done'.calls, "put_archive") = {}
                   /\ client' = client ]_vars

\* mkdir failed for a/b and write_file of a/b/c.txt raised SandboxError
\* after that one call
C34_DirectoryFailureStopsWrite ==
    /\ done.op = "write_file"
    /\ Held(self.container)
    /\ done.args.filename = "a/b/c.txt"
    /\ ~done.args.mkdir_ok
    /\ done.outcome = "SandboxError"
    /\ Len(done.calls) = 1

\* C36: after a call of close the sandbox holds neither a container nor an
\* image, whatever the runtime answered to stop, remove and the removal of
\* the image; a close after a close that returned makes no call to the
\* runtime.
C36_HandlesClearedOnce ==
    [][ done'.op \in CloseOps
        => /\ ~Held(self'.container)
           /\ ~Held(self'.temp_image)
           /\ self.closes > 0 => done'.calls = <<>> ]_vars

\* a second close made no call although the first had left the container
\* running and the built image in place
C36_SecondCloseAfterFailedFirst ==
    /\ done.op = "close"
    /\ self.closes = 2
    /\ done.calls = <<>>
    /\ client.container.state = "running"
    /\ client.images /= NewClient.images

====
